---------------------------- MODULE Spec2Model ----------------------------
(***************************************************************************)
(* A model of the filesystem core of theia: the error taxonomy and its     *)
(* normaliser, the etag derivation, the capability gates, the change and   *)
(* operation events (files.ts, here src/unnamed/part_000), and the batch   *)
(* duplication command (workspace-duplicate-handler.ts).                   *)
(*                                                                         *)
(* Each component has its own specification over the shared variables:     *)
(* SpecErr, SpecEtag, SpecCaps, SpecEvent, SpecChanges, SpecDup.           *)
(***************************************************************************)
EXTENDS Integers, Sequences, FiniteSets, TLC

VARIABLES
    err,          \* the error object under inspection
    marked,       \* history: the code the error was last marked with
    channelled,   \* history: the error crossed the generic channel after marking
    extracted,    \* outcome of the last toFileSystemProviderErrorCode(err)
    opResult,     \* outcome of the last toFileOperationResult(err)
    stat,         \* the { mtime, size } last handed to etag
    tag,          \* outcome of etag(stat)
    capabilities, \* provider -> its capabilities bitset
    gate,         \* the last capability gate evaluated, and its answer
    dispatch,     \* the last gated copy dispatched, and what it invoked
    opEvents,     \* the FileOperationEvents constructed so far
    changes,      \* FileChangesEvent.changes: the batch, fixed at construction
    query,        \* the last call on the batch, if contains: arguments and answer
    filtered,     \* the last call on the batch, if a get.../got... method: its answer
    uris,         \* the batch handed to WorkspaceDuplicateHandler.execute
    pc,           \* index -> where that resource's async callback stands
    parent,       \* index -> the resolved parent: its children's base names
    copies,       \* index -> the workingCopyFileService.copy calls issued for it
    logged,       \* indices whose failure reached console.error
    unhandled,    \* indices whose rejected promise has no handler
    execState,    \* the promise execute returned: idle, pending, fulfilled, rejected
    fs            \* base names present in the directory

errVars == <<err, marked, channelled, extracted, opResult>>
etagVars == <<stat, tag>>
capVars == <<capabilities, gate, dispatch>>
evVars == <<opEvents>>
chVars == <<changes, query, filtered>>
dupVars == <<uris, pc, parent, copies, logged, unhandled, execState, fs>>

vars == <<errVars, etagVars, capVars, evVars, chVars, dupVars>>

\* what each component's specification leaves alone
notErrVars == <<etagVars, capVars, evVars, chVars, dupVars>>
notEtagVars == <<errVars, capVars, evVars, chVars, dupVars>>
notCapVars == <<errVars, etagVars, evVars, chVars, dupVars>>
notEvVars == <<errVars, etagVars, capVars, chVars, dupVars>>
notChVars == <<errVars, etagVars, capVars, evVars, dupVars>>
notDupVars == <<errVars, etagVars, capVars, evVars, chVars>>

-----------------------------------------------------------------------------
(* Outcomes of a JavaScript call: a returned value or a thrown exception.  *)

NotRun == [threw |-> FALSE, ran |-> FALSE, value |-> "-"]
Ret(v) == [threw |-> FALSE, ran |-> TRUE, value |-> v]
Throw(what) == [threw |-> TRUE, ran |-> TRUE, value |-> what]

-----------------------------------------------------------------------------
(* Error taxonomy.                                                         *)

\* enum FileSystemProviderErrorCode: the members' string values
FileExists == "EntryExists"
FileNotFound == "EntryNotFound"
FileNotADirectory == "EntryNotADirectory"
FileIsADirectory == "EntryIsADirectory"
NoPermissions == "NoPermissions"
Unavailable == "Unavailable"
Unknown == "Unknown"

FileSystemProviderErrorCode ==
    {FileExists, FileNotFound, FileNotADirectory, FileIsADirectory,
     NoPermissions, Unavailable, Unknown}

\* const enum FileOperationResult
FileOperationResult ==
    {"FILE_IS_DIRECTORY", "FILE_NOT_FOUND", "FILE_NOT_MODIFIED_SINCE",
     "FILE_MODIFIED_SINCE", "FILE_MOVE_CONFLICT", "FILE_READ_ONLY",
     "FILE_PERMISSION_DENIED", "FILE_TOO_LARGE", "FILE_INVALID_PATH",
     "FILE_EXCEEDS_MEMORY_LIMIT", "FILE_NOT_DIRECTORY", "FILE_OTHER_ERROR"}

NoCode == "<no code>"
NoResult == "<no result>"

\* An error value: its class, its name, and the structured fields its class has.
MkError(cls, name, code, result) ==
    [cls |-> cls, name |-> name, code |-> code, fileOperationResult |-> result]

\* undefined / null passed where an Error is expected
Absent == MkError("undefined", "", NoCode, NoResult)

\* new Error(message): name is "Error" unless the thrower sets it
PlainError(name) == MkError("Error", name, NoCode, NoResult)

\* class FileOperationError extends Error
NewFileOperationError(result) == MkError("FileOperationError", "Error", NoCode, result)

\* class FileSystemProviderError extends Error
NewFileSystemProviderError(code) == MkError("FileSystemProviderError", "Error", code, NoResult)

\* JavaScript truthiness of a string: the empty string is falsy
Truthy(s) == s # ""

MarkSuffix == " (FileSystemError)"

markAsFileSystemProviderError_NameOnly(error, code) ==
    [error EXCEPT !.name = IF Truthy(code) THEN "FileSystemError (" \o code \o ")"
                                            ELSE "FileSystemError"]

markAsFileSystemProviderError(error, code) ==
    [error EXCEPT !.name = IF Truthy(code) THEN code \o MarkSuffix
                                            ELSE "FileSystemError"]

createFileSystemProviderError(code) ==
    markAsFileSystemProviderError(NewFileSystemProviderError(code), code)

ensureFileSystemProviderError(error) ==
    IF error = Absent THEN createFileSystemProviderError(Unknown) ELSE error

\* '.' of a JavaScript regular expression matches no line terminator
IsLineTerminator(ch) == ch \in {"\n", "\r"}

DotPlus(s) ==
    /\ Len(s) >= 1
    /\ \A i \in 1..Len(s) : ~IsLineTerminator(SubSeq(s, i, i))

\* /^(.+) \(FileSystemError\)$/.exec(name): <<group 1>> on a match, <<>> otherwise
MarkRegexExec(name) ==
    LET n == Len(name)
        k == Len(MarkSuffix)
    IN  IF /\ n > k
           /\ SubSeq(name, n - k + 1, n) = MarkSuffix
           /\ DotPlus(SubSeq(name, 1, n - k))
        THEN <<SubSeq(name, 1, n - k)>>
        ELSE <<>>

\* error.name: reading a property of undefined throws a TypeError
GetName(error) == IF error = Absent THEN Throw("TypeError") ELSE Ret(error.name)

CodeFromName(nameOutcome) ==
    IF nameOutcome.threw THEN nameOutcome
    ELSE LET match == MarkRegexExec(nameOutcome.value)
         IN  IF match = <<>> THEN Ret(Unknown)
             ELSE IF match[1] \in {FileExists, FileIsADirectory, FileNotADirectory,
                                   FileNotFound, NoPermissions, Unavailable}
                  THEN Ret(match[1])
                  ELSE Ret(Unknown)

toFileSystemProviderErrorCode_NoGuard(error) ==
    IF error.cls = "FileSystemProviderError" THEN Ret(error.code)
    ELSE CodeFromName(GetName(error))

toFileSystemProviderErrorCode(error) ==
    IF error = Absent THEN Ret(Unknown)
    ELSE IF error.cls = "FileSystemProviderError" THEN Ret(error.code)
    ELSE CodeFromName(GetName(error))

ResultFromCode(codeOutcome) ==
    IF codeOutcome.threw THEN codeOutcome
    ELSE CASE codeOutcome.value = FileNotFound -> Ret("FILE_NOT_FOUND")
           [] codeOutcome.value = FileIsADirectory -> Ret("FILE_IS_DIRECTORY")
           [] codeOutcome.value = FileNotADirectory -> Ret("FILE_NOT_DIRECTORY")
           [] codeOutcome.value = NoPermissions -> Ret("FILE_PERMISSION_DENIED")
           [] codeOutcome.value = FileExists -> Ret("FILE_MOVE_CONFLICT")
           [] OTHER -> Ret("FILE_OTHER_ERROR")

toFileOperationResult_CodeOnly(error) ==
    ResultFromCode(toFileSystemProviderErrorCode(error))

toFileOperationResult(error) ==
    IF error.cls = "FileOperationError" THEN Ret(error.fileOperationResult)
    ELSE ResultFromCode(toFileSystemProviderErrorCode(error))

\* A generic error channel: the receiver rebuilds a plain Error from the
\* name and message alone; class and structured fields are lost.
GenericChannel(error) ==
    IF error = Absent THEN Absent ELSE PlainError(error.name)

-----------------------------------------------------------------------------
(* The etag derivation.                                                    *)

\* An optional value: <<>> is undefined, <<v>> is the value v.
Undefined == <<>>
Some(v) == <<v>>

ETAG_DISABLED == ""

\* the digits Number.prototype.toString(radix) writes, in order of value
DigitChars == "0123456789abcdefghijklmnopqrstuvwxyz"

Digit(d) == SubSeq(DigitChars, d + 1, d + 1)

RECURSIVE NatToString(_, _)
NatToString(n, radix) ==
    IF n < radix THEN Digit(n)
    ELSE NatToString(n \div radix, radix) \o Digit(n % radix)

\* n.toString(radix) for an integer n
IntToString(n, radix) ==
    IF n < 0 THEN "-" \o NatToString(-n, radix) ELSE NatToString(n, radix)

\* x.toString(radix) for an optional number: undefined has no toString
NumberToString(x, radix) ==
    IF x = Undefined THEN Throw("TypeError") ELSE Ret(IntToString(x[1], radix))

\* a + b for two string-valued outcomes
Concat(a, b) ==
    IF a.threw THEN a
    ELSE IF b.threw THEN b
    ELSE Ret(Some(a.value \o b.value))

\* typeof x === 'number'
IsNumber(x) == x # Undefined

etag_MtimeOnly(st) ==
    IF ~IsNumber(st.size) \/ ~IsNumber(st.mtime) THEN Ret(Undefined)
    ELSE Concat(NumberToString(st.mtime, 29), Ret(""))

etag_SizeOnly(st) ==
    IF ~IsNumber(st.size) \/ ~IsNumber(st.mtime) THEN Ret(Undefined)
    ELSE Concat(Ret(""), NumberToString(st.size, 31))

etag_SentinelWhenAbsent(st) ==
    IF ~IsNumber(st.size) \/ ~IsNumber(st.mtime) THEN Ret(Some(ETAG_DISABLED))
    ELSE Concat(NumberToString(st.mtime, 29), NumberToString(st.size, 31))

etag(st) ==
    IF ~IsNumber(st.size) \/ ~IsNumber(st.mtime) THEN Ret(Undefined)
    ELSE Concat(NumberToString(st.mtime, 29), NumberToString(st.size, 31))

-----------------------------------------------------------------------------
(* SpecEtag: etag is called on one stat after another.                     *)

\* mtime and size range over -MaxNeg..MaxNum, or are undefined
MaxNum == 32
MaxNeg == 1

Numbers == (0 - MaxNeg)..MaxNum
OptNumbers == {Undefined} \cup {Some(n) : n \in Numbers}
Stats == [mtime : OptNumbers, size : OptNumbers]

CallEtag ==
    /\ \E st \in Stats :
          /\ stat' = st
          /\ tag' = etag(st)
    /\ UNCHANGED notEtagVars

NextEtag == CallEtag

-----------------------------------------------------------------------------
(* Capability flags and the capability gates.                              *)

\* const enum FileSystemProviderCapabilities
FileReadWrite == 2
FileOpenReadWriteClose == 4
FileFolderCopy == 8
PathCaseSensitive == 1024
Readonly == 2048
Trash == 4096

CapabilityBits ==
    {FileReadWrite, FileOpenReadWriteClose, FileFolderCopy,
     PathCaseSensitive, Readonly, Trash}

\* a & b on non-negative integers
RECURSIVE BitAnd(_, _)
BitAnd(a, b) ==
    IF a = 0 \/ b = 0 THEN 0
    ELSE 2 * BitAnd(a \div 2, b \div 2) + (IF a % 2 = 1 /\ b % 2 = 1 THEN 1 ELSE 0)

\* !!n for a number n
NonZero(n) == n # 0

hasReadWriteCapability(provider) ==
    NonZero(BitAnd(capabilities[provider], FileReadWrite))

hasFileFolderCopyCapability_AnyCapability(provider) ==
    NonZero(capabilities[provider])

hasFileFolderCopyCapability(provider) ==
    NonZero(BitAnd(capabilities[provider], FileFolderCopy))

hasOpenReadWriteCloseCapability(provider) ==
    NonZero(BitAnd(capabilities[provider], FileOpenReadWriteClose))

-----------------------------------------------------------------------------
(* SpecCaps: providers change their capabilities; callers ask the gates    *)
(* and dispatch a copy through the FileFolderCopy gate.                    *)

Providers == {"file", "remote"}

RECURSIVE SumOf(_)
SumOf(S) == IF S = {} THEN 0 ELSE LET x == CHOOSE y \in S : TRUE IN x + SumOf(S \ {x})

CapabilityValues == {SumOf(S) : S \in SUBSET CapabilityBits}

NoGate == [ran |-> FALSE, provider |-> "-", fn |-> "-", result |-> FALSE, called |-> {}]
NoDispatch == [ran |-> FALSE, provider |-> "-", called |-> {}]

\* the provider sets or clears one capability (and fires onDidChangeCapabilities)
ChangeCapabilities ==
    /\ \E p \in Providers, bit \in CapabilityBits :
          capabilities' =
              [capabilities EXCEPT
                  ![p] = IF NonZero(BitAnd(@, bit)) THEN @ - bit ELSE @ + bit]
    /\ gate' = NoGate
    /\ dispatch' = NoDispatch
    /\ UNCHANGED notCapVars

AskReadWrite ==
    /\ \E p \in Providers :
          gate' = [ran |-> TRUE, provider |-> p, fn |-> "hasReadWriteCapability",
                   result |-> hasReadWriteCapability(p), called |-> {}]
    /\ UNCHANGED <<capabilities, dispatch>>
    /\ UNCHANGED notCapVars

AskFileFolderCopy ==
    /\ \E p \in Providers :
          gate' = [ran |-> TRUE, provider |-> p, fn |-> "hasFileFolderCopyCapability",
                   result |-> hasFileFolderCopyCapability(p), called |-> {}]
    /\ UNCHANGED <<capabilities, dispatch>>
    /\ UNCHANGED notCapVars

AskOpenReadWriteClose ==
    /\ \E p \in Providers :
          gate' = [ran |-> TRUE, provider |-> p, fn |-> "hasOpenReadWriteCloseCapability",
                   result |-> hasOpenReadWriteCloseCapability(p), called |-> {}]
    /\ UNCHANGED <<capabilities, dispatch>>
    /\ UNCHANGED notCapVars

\* a caller that follows the gate: provider.copy only behind
\* hasFileFolderCopyCapability, otherwise the copy is emulated by the caller
DispatchCopy ==
    /\ \E p \in Providers :
          dispatch' = [ran |-> TRUE, provider |-> p,
                       called |-> IF hasFileFolderCopyCapability(p)
                                  THEN {"copy"}
                                  ELSE {"mkdir", "readdir"}]
    /\ UNCHANGED <<capabilities, gate>>
    /\ UNCHANGED notCapVars

NextCaps ==
    \/ ChangeCapabilities
    \/ AskReadWrite
    \/ AskFileFolderCopy
    \/ AskOpenReadWriteClose
    \/ DispatchCopy

-----------------------------------------------------------------------------
(* Resource identifiers (URI of @theia/core).                              *)

MkURI(scheme, path) == [scheme |-> scheme, authority |-> "", path |-> path]

\* URI.toString(): the canonical string of the identifier
URIToString(uri) == uri.scheme \o "://" \o uri.authority \o uri.path

StartsWith(str, prefix) ==
    /\ Len(str) >= Len(prefix)
    /\ SubSeq(str, 1, Len(prefix)) = prefix

\* Path.isEqualOrParent: the receiver is path, or an ancestor directory of it
PathIsEqualOrParent(self, path) ==
    \/ self = path
    \/ /\ self # ""
       /\ path # ""
       /\ StartsWith(path, IF self = "/" THEN self ELSE self \o "/")

\* URI.isEqualOrParent: same origin, and the receiver's path is equal to or a
\* parent of the argument's path
URIIsEqualOrParent(self, uri) ==
    /\ self.authority = uri.authority
    /\ self.scheme = uri.scheme
    /\ PathIsEqualOrParent(self.path, uri.path)

-----------------------------------------------------------------------------
(* Operation events.                                                       *)

\* const enum FileOperation
FileOperation == {"CREATE", "DELETE", "MOVE", "COPY"}

EventResources == {MkURI("file", "/a/f"), MkURI("file", "/a/g")}

\* FileStatWithMetadata values handed over as the target of an operation
EventTargets ==
    {[resource |-> r, mtime |-> 30, size |-> sz,
      etag |-> etag([mtime |-> Some(30), size |-> Some(sz)]).value[1]] :
        r \in EventResources, sz \in {0, 31}}

\* the argument lists the implementation signature takes:
\* (resource, operation: FileOperation, target?: FileStatWithMetadata)
ImplementationSignature ==
    [resource : EventResources, operation : FileOperation,
     target : {Undefined} \cup {Some(t) : t \in EventTargets}]

\* the argument lists the two declared overloads accept; the implementation
\* signature is not callable
ConstructorOverloads ==
    [resource : EventResources, operation : {"DELETE"}, target : {Undefined}]
    \cup
    [resource : EventResources, operation : {"CREATE", "MOVE", "COPY"},
     target : {Some(t) : t \in EventTargets}]

\* new FileOperationEvent(resource, operation, target): the parameter
\* properties become the fields
NewFileOperationEvent(args) ==
    [resource |-> args.resource, operation |-> args.operation, target |-> args.target]

isOperation(event, operation) == event.operation = operation

\* at most MaxEvents events are followed
MaxEvents == 2

ConstructEvent ==
    /\ Len(opEvents) < MaxEvents
    /\ \E args \in ConstructorOverloads :
          opEvents' = Append(opEvents, NewFileOperationEvent(args))
    /\ UNCHANGED notEvVars

NextEvent == ConstructEvent

-----------------------------------------------------------------------------
(* Change events.                                                          *)

\* const enum FileChangeType
UPDATED == 0
ADDED == 1
DELETED == 2

FileChangeType == {UPDATED, ADDED, DELETED}

\* FileChangesEvent.contains(resource, type?) on the batch chs; resource and
\* type are optional values
contains(chs, resource, type) ==
    IF resource = Undefined THEN FALSE
    ELSE LET checkForChangeType == IsNumber(type)
         IN  \E i \in 1..Len(chs) :
                 LET change == chs[i]
                 IN  IF checkForChangeType /\ change.type # type[1] THEN FALSE
                     ELSE IF change.type = DELETED
                          THEN URIIsEqualOrParent(resource[1], change.resource)
                          ELSE URIToString(resource[1]) = URIToString(change.resource)

\* Array.prototype.filter with the predicate change.type === type: a new
\* array of the matching records, in order
RECURSIVE FilterByType(_, _)
FilterByType(chs, type) ==
    IF chs = <<>> THEN <<>>
    ELSE IF Head(chs).type = type
         THEN <<Head(chs)>> \o FilterByType(Tail(chs), type)
         ELSE FilterByType(Tail(chs), type)

getOfType_FirstOnly(chs, type) ==
    IF \E i \in 1..Len(chs) : chs[i].type = type
    THEN <<chs[CHOOSE i \in 1..Len(chs) :
                 /\ chs[i].type = type
                 /\ \A k \in 1..(i - 1) : chs[k].type # type]>>
    ELSE <<>>

getOfType(chs, type) == FilterByType(chs, type)

\* Array.prototype.some with the predicate change.type === type
hasType(chs, type) == \E i \in 1..Len(chs) : chs[i].type = type

getAdded(chs) == getOfType(chs, ADDED)
gotAdded(chs) == hasType(chs, ADDED)
getDeleted(chs) == getOfType(chs, DELETED)
gotDeleted(chs) == hasType(chs, DELETED)
getUpdated(chs) == getOfType(chs, UPDATED)
gotUpdated(chs) == hasType(chs, UPDATED)

-----------------------------------------------------------------------------
(* SpecChanges: a batch is constructed, then queried.                      *)

ChangeResources ==
    {MkURI("file", "/a"), MkURI("file", "/a/b"), MkURI("file", "/a/b/c"),
     MkURI("file", "/a/bc"), MkURI("mem", "/a/b")}

FileChanges == [type : FileChangeType, resource : ChangeResources]

\* a batch holds at most MaxChanges records
MaxChanges == 2

Batches == UNION {[1..n -> FileChanges] : n \in 0..MaxChanges}

NoQuery == [ran |-> FALSE, resource |-> Undefined, type |-> Undefined, result |-> FALSE]
NoFiltered == [ran |-> FALSE, fn |-> "-", list |-> <<>>, flag |-> FALSE]

CallContains ==
    /\ \E r \in {Undefined} \cup {Some(u) : u \in ChangeResources},
          t \in {Undefined} \cup {Some(k) : k \in FileChangeType} :
          query' = [ran |-> TRUE, resource |-> r, type |-> t,
                    result |-> contains(changes, r, t)]
    /\ filtered' = NoFiltered
    /\ UNCHANGED changes
    /\ UNCHANGED notChVars

CallGetAdded ==
    /\ filtered' = [ran |-> TRUE, fn |-> "getAdded", list |-> getAdded(changes), flag |-> FALSE]
    /\ query' = NoQuery
    /\ UNCHANGED changes
    /\ UNCHANGED notChVars

CallGotAdded ==
    /\ filtered' = [ran |-> TRUE, fn |-> "gotAdded", list |-> <<>>, flag |-> gotAdded(changes)]
    /\ query' = NoQuery
    /\ UNCHANGED changes
    /\ UNCHANGED notChVars

CallGetDeleted ==
    /\ filtered' = [ran |-> TRUE, fn |-> "getDeleted", list |-> getDeleted(changes), flag |-> FALSE]
    /\ query' = NoQuery
    /\ UNCHANGED changes
    /\ UNCHANGED notChVars

CallGotDeleted ==
    /\ filtered' = [ran |-> TRUE, fn |-> "gotDeleted", list |-> <<>>, flag |-> gotDeleted(changes)]
    /\ query' = NoQuery
    /\ UNCHANGED changes
    /\ UNCHANGED notChVars

CallGetUpdated ==
    /\ filtered' = [ran |-> TRUE, fn |-> "getUpdated", list |-> getUpdated(changes), flag |-> FALSE]
    /\ query' = NoQuery
    /\ UNCHANGED changes
    /\ UNCHANGED notChVars

CallGotUpdated ==
    /\ filtered' = [ran |-> TRUE, fn |-> "gotUpdated", list |-> <<>>, flag |-> gotUpdated(changes)]
    /\ query' = NoQuery
    /\ UNCHANGED changes
    /\ UNCHANGED notChVars

NextChanges ==
    \/ CallContains
    \/ CallGetAdded
    \/ CallGotAdded
    \/ CallGetDeleted
    \/ CallGotDeleted
    \/ CallGetUpdated
    \/ CallGotUpdated

-----------------------------------------------------------------------------
(* WorkspaceDuplicateHandler.execute.                                      *)

\* the files of one directory that can be selected for duplication
Dir == "/a"
Files == {[name |-> "f", ext |-> ".txt"], [name |-> "g", ext |-> ""]}

FileBase(f) == f.name \o f.ext
FileURI(f) == MkURI("file", Dir \o "/" \o FileBase(f))

\* FileSystemUtils.generateUniqueResourceURI: the first of name+ext,
\* name_2+ext, name_3+ext, ... that no child of the parent has
RECURSIVE UniqueBase(_, _, _, _)
UniqueBase(children, name, ext, index) ==
    LET base == IF index = 1 THEN name \o ext
                ELSE name \o "_" \o IntToString(index, 10) \o ext
    IN  IF base \in children THEN UniqueBase(children, name, ext, index + 1) ELSE base

generateUniqueResourceURI(children, name, ext) ==
    MkURI("file", Dir \o "/" \o UniqueBase(children, name, ext, 1))

\* the target of the copy of uris[i], from the parent resolved for it
TargetOf(f, children) == generateUniqueResourceURI(children, f.name \o "_copy", f.ext)

\* a batch has at most BatchSize resources
BatchSize == 2

Indices == 1..Len(uris)

Failed == {"resolveRejected", "copyThrew", "copyRejected"}
Terminal == Failed \cup {"copied", "skipped"}

\* the promises of the callbacks: fulfilled once the callback has returned
CallbackFulfilled(state) ==
    state \in {"copying", "copied", "copyThrew", "copyRejected", "skipped"}

\* Promise.all over the callbacks' promises, given the callbacks' new states
PromiseAll(current, newPc) ==
    IF current # "pending" THEN current
    ELSE IF \E i \in DOMAIN newPc : newPc[i] = "resolveRejected" THEN "rejected"
    ELSE IF \A i \in DOMAIN newPc : CallbackFulfilled(newPc[i]) THEN "fulfilled"
    ELSE "pending"

\* uris.map(async uri => ...): every callback runs to its first await
CanContinue_Sequential(i) ==
    /\ pc[i] = "resolving"
    /\ \A k \in 1..(i - 1) : pc[k] \in Terminal \ Failed

CanContinue(i) == pc[i] = "resolving"

\* execute(uris): map starts every callback, each calls fileService.resolve
\* and suspends; execute suspends on Promise.all
CallExecute ==
    /\ execState = "idle"
    /\ pc' = [i \in Indices |-> "resolving"]
    /\ execState' = "pending"
    /\ UNCHANGED <<uris, parent, copies, logged, unhandled, fs>>
    /\ UNCHANGED notDupVars

\* fileService.resolve(uri.parent, ...) fulfilled: the FileStat of the
\* directory with its children; the service never fulfils with undefined
FileServiceResolve(children) == Some(children)

\* resolve fulfils for uris[i]; copy is called and returns a pending promise,
\* which is not awaited: the callback returns
ResolveThenCopy(i) ==
    /\ CanContinue(i)
    /\ LET resolved == FileServiceResolve(fs)
       IN  /\ parent' = [parent EXCEPT ![i] = resolved]
           /\ IF resolved # Undefined
              THEN /\ copies' = [copies EXCEPT ![i] =
                                   Append(@, [source |-> FileURI(uris[i]),
                                              target |-> TargetOf(uris[i], resolved[1])])]
                   /\ pc' = [pc EXCEPT ![i] = "copying"]
              ELSE /\ copies' = copies
                   /\ pc' = [pc EXCEPT ![i] = "skipped"]
    /\ execState' = PromiseAll(execState, pc')
    /\ UNCHANGED <<uris, logged, unhandled, fs>>
    /\ UNCHANGED notDupVars

\* resolve fulfils for uris[i]; copy throws before returning a promise: the
\* catch block logs the error and the callback returns
ResolveThenCopyThrows(i) ==
    /\ CanContinue(i)
    /\ LET resolved == FileServiceResolve(fs)
       IN  /\ resolved # Undefined
           /\ parent' = [parent EXCEPT ![i] = resolved]
           /\ copies' = [copies EXCEPT ![i] =
                           Append(@, [source |-> FileURI(uris[i]),
                                      target |-> TargetOf(uris[i], resolved[1])])]
    /\ logged' = logged \cup {i}
    /\ pc' = [pc EXCEPT ![i] = "copyThrew"]
    /\ execState' = PromiseAll(execState, pc')
    /\ UNCHANGED <<uris, unhandled, fs>>
    /\ UNCHANGED notDupVars

\* resolve fails for uris[i]: the await throws outside any try block, the
\* callback's promise rejects, and with it Promise.all
ResolveRejects(i) ==
    /\ CanContinue(i)
    /\ pc' = [pc EXCEPT ![i] = "resolveRejected"]
    /\ execState' = PromiseAll(execState, pc')
    /\ UNCHANGED <<uris, parent, copies, logged, unhandled, fs>>
    /\ UNCHANGED notDupVars

\* the copy of uris[i] finishes: its target exists
CopyCompletes(i) ==
    /\ pc[i] = "copying"
    /\ pc' = [pc EXCEPT ![i] = "copied"]
    /\ fs' = fs \cup {SubSeq(copies[i][1].target.path, Len(Dir) + 2, Len(copies[i][1].target.path))}
    /\ UNCHANGED <<uris, parent, copies, logged, unhandled, execState>>
    /\ UNCHANGED notDupVars

\* the promise copy returned for uris[i] rejects; nothing awaits it and no
\* handler is attached to it
CopyRejects(i) ==
    /\ pc[i] = "copying"
    /\ pc' = [pc EXCEPT ![i] = "copyRejected"]
    /\ unhandled' = unhandled \cup {i}
    /\ UNCHANGED <<uris, parent, copies, logged, execState, fs>>
    /\ UNCHANGED notDupVars

NextDup ==
    \/ CallExecute
    \/ \E i \in Indices : ResolveThenCopy(i)
    \/ \E i \in Indices : ResolveThenCopyThrows(i)
    \/ \E i \in Indices : ResolveRejects(i)
    \/ \E i \in Indices : CopyCompletes(i)
    \/ \E i \in Indices : CopyRejects(i)

-----------------------------------------------------------------------------
(* SpecErr: errors are raised, marked, passed on, and classified.          *)

\* codes given to the marking functions: the enumeration, a custom code,
\* and a falsy one
MarkCodes == FileSystemProviderErrorCode \cup {"Custom", ""}

\* names of errors raised by code that knows nothing of this layer
ForeignNames ==
    {"Error", "TypeError", "FileSystemError", MarkSuffix,
     "EntryNotFound(FileSystemError)", "EntryNotFound (FileSystemError) ",
     "Entry\nNotFound (FileSystemError)", "entrynotfound (FileSystemError)"}

RaiseError ==
    /\ \E name \in ForeignNames : err' = PlainError(name)
    /\ marked' = NoCode
    /\ channelled' = FALSE
    /\ extracted' = NotRun
    /\ opResult' = NotRun
    /\ UNCHANGED notErrVars

RaiseFileOperationError ==
    /\ \E r \in FileOperationResult : err' = NewFileOperationError(r)
    /\ marked' = NoCode
    /\ channelled' = FALSE
    /\ extracted' = NotRun
    /\ opResult' = NotRun
    /\ UNCHANGED notErrVars

CreateProviderError ==
    /\ \E c \in MarkCodes :
          /\ err' = createFileSystemProviderError(c)
          /\ marked' = c
    /\ channelled' = FALSE
    /\ extracted' = NotRun
    /\ opResult' = NotRun
    /\ UNCHANGED notErrVars

MarkError ==
    /\ err # Absent
    /\ \E c \in MarkCodes :
          /\ err' = markAsFileSystemProviderError(err, c)
          /\ marked' = c
    /\ channelled' = FALSE
    /\ extracted' = NotRun
    /\ opResult' = NotRun
    /\ UNCHANGED notErrVars

EnsureError ==
    /\ err' = ensureFileSystemProviderError(err)
    /\ marked' = IF err = Absent THEN Unknown ELSE marked
    /\ extracted' = IF err = Absent THEN NotRun ELSE extracted
    /\ opResult' = IF err = Absent THEN NotRun ELSE opResult
    /\ UNCHANGED channelled
    /\ UNCHANGED notErrVars

PassChannel ==
    /\ err # Absent
    /\ err' = GenericChannel(err)
    /\ channelled' = TRUE
    /\ extracted' = NotRun
    /\ opResult' = NotRun
    /\ UNCHANGED marked
    /\ UNCHANGED notErrVars

DropError ==
    /\ err # Absent
    /\ err' = Absent
    /\ marked' = NoCode
    /\ channelled' = FALSE
    /\ extracted' = NotRun
    /\ opResult' = NotRun
    /\ UNCHANGED notErrVars

ExtractCode ==
    /\ extracted' = toFileSystemProviderErrorCode(err)
    /\ UNCHANGED <<err, marked, channelled, opResult>>
    /\ UNCHANGED notErrVars

ClassifyError ==
    /\ opResult' = toFileOperationResult(err)
    /\ UNCHANGED <<err, marked, channelled, extracted>>
    /\ UNCHANGED notErrVars

NextErr ==
    \/ RaiseError
    \/ RaiseFileOperationError
    \/ CreateProviderError
    \/ MarkError
    \/ EnsureError
    \/ PassChannel
    \/ DropError
    \/ ExtractCode
    \/ ClassifyError


-----------------------------------------------------------------------------
(* Specifications: one per component; the other components stay idle.      *)

\* no error raised yet, no stat seen yet
InitErr ==
    /\ err = Absent
    /\ marked = NoCode
    /\ channelled = FALSE
    /\ extracted = NotRun
    /\ opResult = NotRun
    /\ stat = [mtime |-> Undefined, size |-> Undefined]
    /\ tag = NotRun
    /\ capabilities = [p \in Providers |-> 0]
    /\ gate = NoGate
    /\ dispatch = NoDispatch
    /\ opEvents = <<>>
    /\ changes = <<>>
    /\ query = NoQuery
    /\ filtered = NoFiltered
    /\ uris = <<>>
    /\ pc = <<>>
    /\ parent = <<>>
    /\ copies = <<>>
    /\ logged = {}
    /\ unhandled = {}
    /\ execState = "idle"
    /\ fs = {}

SpecErr == InitErr /\ [][NextErr]_vars

InitEtag ==
    /\ err = Absent
    /\ marked = NoCode
    /\ channelled = FALSE
    /\ extracted = NotRun
    /\ opResult = NotRun
    /\ stat = [mtime |-> Undefined, size |-> Undefined]
    /\ tag = NotRun
    /\ capabilities = [p \in Providers |-> 0]
    /\ gate = NoGate
    /\ dispatch = NoDispatch
    /\ opEvents = <<>>
    /\ changes = <<>>
    /\ query = NoQuery
    /\ filtered = NoFiltered
    /\ uris = <<>>
    /\ pc = <<>>
    /\ parent = <<>>
    /\ copies = <<>>
    /\ logged = {}
    /\ unhandled = {}
    /\ execState = "idle"
    /\ fs = {}

SpecEtag == InitEtag /\ [][NextEtag]_vars

\* every provider is constructed with some capabilities
InitCaps ==
    /\ err = Absent
    /\ marked = NoCode
    /\ channelled = FALSE
    /\ extracted = NotRun
    /\ opResult = NotRun
    /\ stat = [mtime |-> Undefined, size |-> Undefined]
    /\ tag = NotRun
    /\ capabilities \in [Providers -> CapabilityValues]
    /\ gate = NoGate
    /\ dispatch = NoDispatch
    /\ opEvents = <<>>
    /\ changes = <<>>
    /\ query = NoQuery
    /\ filtered = NoFiltered
    /\ uris = <<>>
    /\ pc = <<>>
    /\ parent = <<>>
    /\ copies = <<>>
    /\ logged = {}
    /\ unhandled = {}
    /\ execState = "idle"
    /\ fs = {}

SpecCaps == InitCaps /\ [][NextCaps]_vars

InitEvent ==
    /\ err = Absent
    /\ marked = NoCode
    /\ channelled = FALSE
    /\ extracted = NotRun
    /\ opResult = NotRun
    /\ stat = [mtime |-> Undefined, size |-> Undefined]
    /\ tag = NotRun
    /\ capabilities = [p \in Providers |-> 0]
    /\ gate = NoGate
    /\ dispatch = NoDispatch
    /\ opEvents = <<>>
    /\ changes = <<>>
    /\ query = NoQuery
    /\ filtered = NoFiltered
    /\ uris = <<>>
    /\ pc = <<>>
    /\ parent = <<>>
    /\ copies = <<>>
    /\ logged = {}
    /\ unhandled = {}
    /\ execState = "idle"
    /\ fs = {}

SpecEvent == InitEvent /\ [][NextEvent]_vars

\* new FileChangesEvent(changes), for every batch of at most MaxChanges records
InitChanges ==
    /\ err = Absent
    /\ marked = NoCode
    /\ channelled = FALSE
    /\ extracted = NotRun
    /\ opResult = NotRun
    /\ stat = [mtime |-> Undefined, size |-> Undefined]
    /\ tag = NotRun
    /\ capabilities = [p \in Providers |-> 0]
    /\ gate = NoGate
    /\ dispatch = NoDispatch
    /\ opEvents = <<>>
    /\ changes \in Batches
    /\ query = NoQuery
    /\ filtered = NoFiltered
    /\ uris = <<>>
    /\ pc = <<>>
    /\ parent = <<>>
    /\ copies = <<>>
    /\ logged = {}
    /\ unhandled = {}
    /\ execState = "idle"
    /\ fs = {}

SpecChanges == InitChanges /\ [][NextChanges]_vars

\* a non-empty batch of files of the directory is selected; the directory
\* holds the files, and possibly an earlier duplicate
InitDup ==
    /\ err = Absent
    /\ marked = NoCode
    /\ channelled = FALSE
    /\ extracted = NotRun
    /\ opResult = NotRun
    /\ stat = [mtime |-> Undefined, size |-> Undefined]
    /\ tag = NotRun
    /\ capabilities = [p \in Providers |-> 0]
    /\ gate = NoGate
    /\ dispatch = NoDispatch
    /\ opEvents = <<>>
    /\ changes = <<>>
    /\ query = NoQuery
    /\ filtered = NoFiltered
    /\ uris \in UNION {[1..n -> Files] : n \in 1..BatchSize}
    /\ pc = [i \in 1..Len(uris) |-> "idle"]
    /\ parent = [i \in 1..Len(uris) |-> Undefined]
    /\ copies = [i \in 1..Len(uris) |-> <<>>]
    /\ logged = {}
    /\ unhandled = {}
    /\ execState = "idle"
    /\ fs \in {{FileBase(f) : f \in Files}, {FileBase(f) : f \in Files} \cup {"f_copy.txt"}}

SpecDup == InitDup /\ [][NextDup]_vars

-----------------------------------------------------------------------------
(* Claims about the error normaliser, checked under SpecErr.               *)

\* The fixed table of section 4.3, written out independently of the code.
OperationResultTable(code) ==
    CASE code = "EntryNotFound" -> "FILE_NOT_FOUND"
      [] code = "EntryIsADirectory" -> "FILE_IS_DIRECTORY"
      [] code = "EntryNotADirectory" -> "FILE_NOT_DIRECTORY"
      [] code = "NoPermissions" -> "FILE_PERMISSION_DENIED"
      [] code = "EntryExists" -> "FILE_MOVE_CONFLICT"
      [] OTHER -> "FILE_OTHER_ERROR"

\* C1: toFileOperationResult is total: it never throws and returns exactly one
\* operation-level result; for a FileOperationError that is the result the
\* error carries, whatever its name is marked with; for any other error it is
\* the table entry of the provider-level code extracted from the error, with
\* Unavailable, Unknown and every unmapped or custom code giving
\* FILE_OTHER_ERROR.
C1_ClassifyTotalAndTable ==
    opResult.ran =>
        /\ ~opResult.threw
        /\ opResult.value \in FileOperationResult
        /\ err.cls = "FileOperationError" => opResult.value = err.fileOperationResult
        /\ err.cls # "FileOperationError" =>
              /\ ~toFileSystemProviderErrorCode(err).threw
              /\ opResult.value =
                    OperationResultTable(toFileSystemProviderErrorCode(err).value)

\* C1 witness: a FileOperationError whose name carries a provider-level
\* marking has been classified, and the result it carries came back.
C1_Witness ==
    /\ opResult.ran
    /\ err.cls = "FileOperationError"
    /\ err.name = "EntryNotFound (FileSystemError)"
    /\ err.fileOperationResult = "FILE_TOO_LARGE"
    /\ opResult.value = "FILE_TOO_LARGE"

\* C5: an error marked with a code c of the closed enumeration (by
\* markAsFileSystemProviderError or createFileSystemProviderError) and then
\* passed through a channel that keeps only its name and message yields c
\* again from toFileSystemProviderErrorCode.
C5_MarkRoundTrip ==
    (extracted.ran /\ channelled /\ marked \in FileSystemProviderErrorCode) =>
        /\ err.cls = "Error"
        /\ extracted = Ret(marked)

\* C5 witness: NotFound was marked, the error crossed the channel and lost
\* its structured code, and extraction has run.
C5_Witness ==
    /\ extracted.ran
    /\ channelled
    /\ marked = FileNotFound
    /\ err.code = NoCode
    /\ extracted.value = FileNotFound

\* the name is that of an error marked with a recognised code
HasRecognisedMarking(error) ==
    \E c \in {"EntryExists", "EntryNotFound", "EntryNotADirectory",
              "EntryIsADirectory", "NoPermissions", "Unavailable"} :
        error.name = c \o " (FileSystemError)"

\* C6: toFileSystemProviderErrorCode never throws, and returns Unknown for
\* every input without a provider-level marking: an absent error, or one that
\* is not a FileSystemProviderError and whose name is not
\* '<recognised code> (FileSystemError)'.
C6_ExtractNeverFails ==
    extracted.ran =>
        /\ ~extracted.threw
        /\ (err = Absent \/ (err.cls # "FileSystemProviderError" /\ ~HasRecognisedMarking(err)))
              => extracted.value = Unknown

\* C6 witness: extraction has run on an absent error and gave Unknown.
C6_Witness ==
    /\ extracted.ran
    /\ err = Absent
    /\ extracted.value = Unknown

-----------------------------------------------------------------------------
(* Claims about etag, checked under SpecEtag.                              *)

BothNumbers(st) == st.mtime # <<>> /\ st.size # <<>>

\* C7: for stats whose mtime and size are both numbers, etag is a function
\* of its inputs, and changing one input while the other is held fixed
\* changes the output: between any two consecutive calls, a different mtime
\* with the same size, or a different size with the same mtime, gives a
\* different string.
C7_EtagSeparatesEachInput ==
    [][(tag.ran /\ BothNumbers(stat) /\ BothNumbers(stat')) =>
         /\ ~tag.threw /\ ~tag'.threw
         /\ tag.value # <<>> /\ tag'.value # <<>>
         /\ (stat'.mtime # stat.mtime /\ stat'.size = stat.size) => tag'.value # tag.value
         /\ (stat'.mtime = stat.mtime /\ stat'.size # stat.size) => tag'.value # tag.value
         /\ stat' = stat => tag' = tag]_vars

\* C7 witness: etag has run on a stat whose two numbers both take two digits
\* (30 is "11" in base 29, 32 is "11" in base 31).
C7_Witness ==
    /\ stat = [mtime |-> <<30>>, size |-> <<32>>]
    /\ tag.ran
    /\ tag.value = <<"1111">>

\* C8: etag never throws and never returns ETAG_DISABLED (the empty string):
\* with mtime or size absent it returns undefined, with both numbers it
\* returns a non-empty string.
C8_EtagNeverSentinel ==
    tag.ran =>
        /\ ~tag.threw
        /\ tag.value # <<ETAG_DISABLED>>
        /\ ~BothNumbers(stat) => tag.value = <<>>
        /\ BothNumbers(stat) => (tag.value # <<>> /\ Len(tag.value[1]) >= 1)

\* C8 witness: etag has run on a stat with a size and no mtime, and returned
\* undefined.
C8_Witness ==
    /\ stat = [mtime |-> <<>>, size |-> <<0>>]
    /\ tag.ran
    /\ tag.value = <<>>

-----------------------------------------------------------------------------
(* Claims about the capability gates, checked under SpecCaps.              *)

\* bit (a power of two) is set in the bitset c
BitIsSet(c, bit) == (c \div bit) % 2 = 1

OwnBit(fn) ==
    CASE fn = "hasReadWriteCapability" -> 2
      [] fn = "hasFileFolderCopyCapability" -> 8
      [] fn = "hasOpenReadWriteCloseCapability" -> 4

\* C9: each gate answers true exactly when its own bit (FileReadWrite = 2,
\* FileFolderCopy = 8, FileOpenReadWriteClose = 4) is set in the provider's
\* current capabilities, whatever the other bits are, and invokes no provider
\* operation; a dispatch that follows the gate invokes copy only on a
\* provider whose FileFolderCopy bit is set.
C9_GatesTestOwnBit ==
    /\ gate.ran =>
          /\ gate.result = BitIsSet(capabilities[gate.provider], OwnBit(gate.fn))
          /\ gate.called = {}
    /\ dispatch.ran =>
          ("copy" \in dispatch.called <=> BitIsSet(capabilities[dispatch.provider], 8))

\* C9 witness: a copy was dispatched to a provider that has other
\* capabilities but not FileFolderCopy, and copy was not invoked.
C9_Witness ==
    /\ dispatch.ran
    /\ capabilities[dispatch.provider] = 2 + 4 + 4096
    /\ "copy" \notin dispatch.called

-----------------------------------------------------------------------------
(* Claims about the events, checked under SpecEvent and SpecChanges.       *)

\* r is a descendant of d: same scheme and authority, and r's path
\* continues d's path below a separator
IsDescendantOf(r, d) ==
    /\ r.scheme = d.scheme
    /\ r.authority = d.authority
    /\ Len(r.path) > Len(d.path) + 1
    /\ SubSeq(r.path, 1, Len(d.path) + 1) = d.path \o "/"

\* what C2 says contains(r, t) is, for a present resource r
ContainsAsClaimed(chs, r, t) ==
    \E i \in 1..Len(chs) :
        /\ t = <<>> \/ chs[i].type = t[1]
        /\ \/ chs[i].type # 2 /\ URIToString(r) = URIToString(chs[i].resource)
           \/ chs[i].type = 2 /\ (r = chs[i].resource \/ IsDescendantOf(r, chs[i].resource))

\* C2: contains(r, t) is true exactly when the batch has a record c with
\* (t absent or c.type = t) and either c is not DELETED and r equals
\* c.resource by canonical string, or c is DELETED and r is equal to or a
\* descendant of c.resource; so a Deleted record for /a/b gives
\* contains(/a/b/c, DELETED) = true, and a Deleted record for /a/b/c does not
\* make contains(/a/b, DELETED) true.
C2_ContainsDeletedCoversDescendants ==
    (query.ran /\ query.resource # <<>>) =>
        query.result = ContainsAsClaimed(changes, query.resource[1], query.type)

\* C10: every constructed FileOperationEvent has a target when its operation
\* is CREATE, MOVE or COPY and none when it is DELETE.
C10_TargetMatchesOperation ==
    \A i \in 1..Len(opEvents) :
        /\ isOperation(opEvents[i], "DELETE") => opEvents[i].target = <<>>
        /\ opEvents[i].operation \in {"CREATE", "MOVE", "COPY"} => opEvents[i].target # <<>>

\* C10 witness: a DELETE event without target and a COPY event with one
\* have both been constructed.
C10_Witness ==
    /\ Len(opEvents) = 2
    /\ opEvents[1].operation = "DELETE" /\ opEvents[1].target = <<>>
    /\ opEvents[2].operation = "COPY" /\ opEvents[2].target # <<>>

-----------------------------------------------------------------------------
(* Claims about WorkspaceDuplicateHandler.execute, checked under SpecDup.  *)

\* C3: under every interleaving, a failure of one resource never cancels or
\* skips a sibling: a sibling still waiting for its parent can still go on
\* to its copy, a sibling's copy in flight can still complete, no resource
\* has more than one copy issued, each copy goes from the resource to the
\* target generated from the parent resolved for it, and when every callback
\* and copy has ended every resource that did not fail itself has exactly
\* one copy, completed, with its target present.
C3_FailureSparesSiblings ==
    /\ \A j \in Indices :
          /\ Len(copies[j]) <= 1
          /\ Len(copies[j]) = 1 =>
                /\ copies[j][1].source.path = "/a/" \o uris[j].name \o uris[j].ext
                /\ copies[j][1].target =
                      generateUniqueResourceURI(parent[j][1], uris[j].name \o "_copy", uris[j].ext)
          /\ pc[j] = "resolving" => ENABLED ResolveThenCopy(j)
          /\ pc[j] = "copying" => ENABLED CopyCompletes(j)
    /\ (execState # "idle" /\ \A i \in Indices : pc[i] \notin {"resolving", "copying"}) =>
          \A j \in Indices :
              \/ pc[j] \in {"resolveRejected", "copyThrew", "copyRejected"}
              \/ /\ pc[j] = "copied"
                 /\ Len(copies[j]) = 1
                 /\ SubSeq(copies[j][1].target.path, 4, Len(copies[j][1].target.path)) \in fs

\* C3 witness: of two resources the first one's copy was rejected, and the
\* second one's copy was issued once, to its own target, and completed.
C3_Witness ==
    /\ Len(uris) >= 2
    /\ uris[1] # uris[2]
    /\ pc[1] = "copyRejected"
    /\ pc[2] = "copied"
    /\ Len(copies[2]) = 1
    /\ copies[2][1].target.path = "/a/g_copy"

\* C4: the failure of a resource's duplication, in resolving the parent or
\* in the copy, thrown or rejected, is caught and logged for that resource:
\* the promise execute returned does not reject, and no rejection is left
\* unhandled.
C4_EveryFailureCaughtAndLogged ==
    /\ \A i \in Indices :
          pc[i] \in {"resolveRejected", "copyThrew", "copyRejected"} => i \in logged
    /\ execState # "rejected"
    /\ unhandled = {}

-----------------------------------------------------------------------------
(* Claims about the batch's filters, checked under SpecChanges.            *)

\* the kind each get... / got... method is about
KindOf(fn) ==
    CASE fn \in {"getUpdated", "gotUpdated"} -> 0
      [] fn \in {"getAdded", "gotAdded"} -> 1
      [] fn \in {"getDeleted", "gotDeleted"} -> 2

\* the positions of the batch holding a record of kind k
PositionsOf(chs, k) == {i \in 1..Len(chs) : chs[i].type = k}

\* list is exactly the records of chs at the positions P, in their order
IsSelection(list, chs, P) ==
    /\ Len(list) = Cardinality(P)
    /\ \A n \in 1..Len(list) :
          \E i \in P :
              /\ Cardinality({j \in P : j < i}) = n - 1
              /\ list[n] = chs[i]

\* the answer of the last get... / got... call is the one C11 states
FilterAsClaimed ==
    /\ filtered.ran /\ filtered.fn \in {"getAdded", "getDeleted", "getUpdated"} =>
          IsSelection(filtered.list, changes, PositionsOf(changes, KindOf(filtered.fn)))
    /\ filtered.ran /\ filtered.fn \in {"gotAdded", "gotDeleted", "gotUpdated"} =>
          filtered.flag = (PositionsOf(changes, KindOf(filtered.fn)) # {})
    /\ Len(getAdded(changes)) + Len(getDeleted(changes)) + Len(getUpdated(changes))
          = Len(changes)
    /\ gotAdded(changes) = (getAdded(changes) # <<>>)
    /\ gotDeleted(changes) = (getDeleted(changes) # <<>>)
    /\ gotUpdated(changes) = (getUpdated(changes) # <<>>)

\* C11: getAdded, getDeleted and getUpdated return exactly the records of
\* kind ADDED, DELETED and UPDATED in their original relative order, so the
\* three results partition the batch; gotAdded, gotDeleted and gotUpdated are
\* true exactly when the matching get result is non-empty; and no call, of
\* these or of contains, changes the batch's record sequence.
C11_FiltersPartitionAndPreserve ==
    [][changes' = changes /\ FilterAsClaimed']_vars

\* C11 witness: on a batch of an Updated record followed by an Added one,
\* getAdded has returned the Added record alone.
C11_Witness ==
    /\ Len(changes) = 2
    /\ changes[1].type = 0 /\ changes[2].type = 1
    /\ changes[1].resource # changes[2].resource
    /\ filtered.ran /\ filtered.fn = "getAdded"
    /\ filtered.list = <<changes[2]>>

-----------------------------------------------------------------------------
(* Claims about etag on pairs, checked under SpecEtag.                     *)

\* both numbers are present and not negative
NonNegativeStat(st) ==
    /\ st.mtime # <<>> /\ st.size # <<>>
    /\ st.mtime[1] >= 0 /\ st.size[1] >= 0

\* how many digits the numeral of n >= 0 has in the given radix
RECURSIVE DigitCount(_, _)
DigitCount(n, radix) == IF n < radix THEN 1 ELSE 1 + DigitCount(n \div radix, radix)

\* C12 as stated: any two different pairs of non-negative integers have
\* different etags.
C12_EtagInjectiveOnPairs ==
    [][(tag.ran /\ NonNegativeStat(stat) /\ NonNegativeStat(stat') /\ stat' # stat)
         => tag'.value # tag.value]_vars

\* C12 amended: two different pairs of non-negative integers have different
\* etags whenever their mtimes have the same number of base-29 digits or
\* their sizes have the same number of base-31 digits; the etag is the
\* base-29 numeral of mtime followed directly by the base-31 numeral of size.
C12_EtagInjectiveOnSameMagnitude ==
    [][(/\ tag.ran /\ NonNegativeStat(stat) /\ NonNegativeStat(stat') /\ stat' # stat
        /\ \/ DigitCount(stat.mtime[1], 29) = DigitCount(stat'.mtime[1], 29)
           \/ DigitCount(stat.size[1], 31) = DigitCount(stat'.size[1], 31))
         => /\ tag'.value # tag.value
            /\ Len(tag'.value[1]) =
                  DigitCount(stat'.mtime[1], 29) + DigitCount(stat'.size[1], 31)]_vars

\* C12 witness: etag has run on mtime 1 and size 31 and returned "110", the
\* string it also returns for mtime 30 and size 0.
C12_Witness ==
    /\ stat = [mtime |-> <<1>>, size |-> <<31>>]
    /\ tag.ran
    /\ tag.value = <<"110">>
    /\ etag([mtime |-> <<30>>, size |-> <<0>>]).value = <<"110">>

=============================================================================
